---- MODULE Spec2Model ----
(***************************************************************************)
(* Provider routing and parallel dispatch of llm-council's backend:        *)
(* backend/providers/base.py (capability contract, ProviderRegistry,       *)
(* get_registry), the four adapters under backend/providers/, and the      *)
(* dispatch entry points of backend/openrouter.py.                         *)
(*                                                                         *)
(* A model identifier is the sequence of its '/'-separated segments:       *)
(* "deepseek/deepseek-chat" is <<"deepseek", "deepseek-chat">>, a bare     *)
(* "gpt" is <<"gpt">>, "a/b/c" is <<"a", "b", "c">>.  A segment holds no   *)
(* '/', so the sequences and the strings correspond one to one.            *)
(***************************************************************************)
EXTENDS Integers, Sequences, FiniteSets, TLC

VARIABLES
    env,          \* config.py: provider class -> value of its API key variable
    heap,         \* the ProviderRegistry instances constructed so far
    registry,     \* base.py `_registry`: 0 (None) or an index into heap
    regCalls,     \* history of register calls made by the registration driver
    resolvedId,   \* identifier of the driver's last get_provider call
    resolved,     \* adapter returned by that call
    gpc,          \* position of each get_registry caller
    gseen,        \* the registry each caller handed to _initialize_providers
    gret,         \* value each get_registry call returned (0: not yet)
    pc,           \* position of the dispatcher call
    op,           \* which entry point was called
    models,       \* the identifiers passed to it
    tasks,        \* the query_model coroutines of the call
    responses,    \* what asyncio.gather handed back
    result,       \* value returned to the caller
    messages,     \* the caller's list of message dicts
    view          \* what the caller last got from the `providers` property

vars == <<env, heap, registry, regCalls, resolvedId, resolved,
          gpc, gseen, gret, pc, op, models, tasks, responses, result,
          messages, view>>
regVars == <<regCalls, resolvedId, resolved>>
getVars == <<gpc, gseen, gret>>
dispVars == <<pc, op, models, tasks, responses, result>>
callerVars == <<messages, view>>

\* Python's None where a string is expected
None == "None"

(***************************************************************************)
(* Bounds                                                                  *)
(***************************************************************************)
MaxRegister == 3
MaxModels == 2
NumCallers == 2

\* Segments the explored identifiers are built from
Segments == {"openai", "deepseek", "DeepSeek", "glm", "GLM", "zhipu",
             "kimi", "moonshot", "openrouter", "foo", "x", ""}

\* Identifiers explored by the registration driver
DriverIdentifiers ==
    {<<s>> : s \in {"x", "deepseek", "glm"}}
    \cup {<<s, "x">> : s \in Segments \ {"zhipu", "moonshot"}}
    \cup {<<"foo", "deepseek", "x">>}

\* Identifiers explored by the dispatcher
Identifiers ==
    {<<"openai", "x">>, <<"deepseek", "x">>, <<"glm", "x">>, <<"x">>}

\* Values an API key variable can have: unset, set to the empty string, set
EnvValues == {None, "", "sk"}

\* Keys the registration driver constructs adapters with
DriverKeys == {"sk", "sk2"}

\* A message dict, and the three-message history the callers pass
Message(role, content) == [role |-> role, content |-> content]

History == <<Message("system", "be brief"), Message("user", "why?"),
             Message("assistant", "because")>>

(***************************************************************************)
(* Capability contract and the four adapters                               *)
(***************************************************************************)
ProviderClasses ==
    <<"OpenRouterProvider", "DeepSeekProvider", "ZhipuProvider", "MoonshotProvider">>

ProviderClassSet == {ProviderClasses[i] : i \in 1..Len(ProviderClasses)}

\* An adapter instance: its class and the key given to __init__
Provider(cls, api_key) == [cls |-> cls, api_key |-> api_key]

NoProvider == [cls |-> None, api_key |-> None]

provider_name(p) ==
    CASE p.cls = "OpenRouterProvider" -> "openrouter"
      [] p.cls = "DeepSeekProvider" -> "deepseek"
      [] p.cls = "ZhipuProvider" -> "zhipu"
      [] p.cls = "MoonshotProvider" -> "moonshot"
      [] OTHER -> None

SUPPORTED_PREFIXES ==
    {"openai", "anthropic", "google", "meta-llama", "x-ai", "mistralai",
     "microsoft", "cohere", "perplexity", "qwen"}

\* str.lower() on the explored segments
lower(s) ==
    CASE s = "DeepSeek" -> "deepseek"
      [] s = "GLM" -> "glm"
      [] OTHER -> s

\* '"/" in model_identifier'
HasSlash(id) == Len(id) >= 2

base_supports_model_NoSlash(p, id) == Len(id) >= 1 /\ id[1] = provider_name(p)

\* LLMProvider.supports_model: model_identifier.startswith(provider_name + "/")
base_supports_model(p, id) == HasSlash(id) /\ id[1] = provider_name(p)

supports_model_DefaultClaimsAll(p, id) ==
    CASE p.cls = "OpenRouterProvider" -> HasSlash(id)
      [] p.cls = "ZhipuProvider" ->
            HasSlash(id) /\ lower(id[1]) \in {"zhipu", "glm"}
      [] p.cls = "MoonshotProvider" ->
            HasSlash(id) /\ lower(id[1]) \in {"moonshot", "kimi"}
      [] OTHER -> base_supports_model(p, id)

supports_model(p, id) ==
    CASE p.cls = "OpenRouterProvider" ->
            HasSlash(id) /\ id[1] \in SUPPORTED_PREFIXES
      [] p.cls = "ZhipuProvider" ->
            HasSlash(id) /\ lower(id[1]) \in {"zhipu", "glm"}
      [] p.cls = "MoonshotProvider" ->
            HasSlash(id) /\ lower(id[1]) \in {"moonshot", "kimi"}
      [] OTHER -> base_supports_model(p, id)

extract_model_name_SecondPart(id) == IF HasSlash(id) THEN <<id[2]>> ELSE id

\* LLMProvider.extract_model_name: the part after the first '/'
extract_model_name(id) == IF HasSlash(id) THEN Tail(id) ELSE id

\* extract_model_name as adapter p has it: none of the four classes defines
\* its own, all inherit LLMProvider's
adapter_extract_model_name(p, id) == extract_model_name(id)

(***************************************************************************)
(* ProviderRegistry                                                        *)
(***************************************************************************)
\* __init__: _providers is a dict, kept here in its insertion order
NewRegistry == [providers |-> <<>>, default_provider |-> None]

IndexOf(r, name) ==
    {i \in 1..Len(r.providers) : provider_name(r.providers[i]) = name}

SetDefaultFirstOnly(r, provider, is_default) ==
    IF r.default_provider = None THEN provider_name(provider) ELSE r.default_provider

SetDefaultFlagOnly(r, provider, is_default) ==
    IF is_default THEN provider_name(provider) ELSE r.default_provider

\* register, lines 79-80
SetDefault(r, provider, is_default) ==
    IF is_default \/ r.default_provider = None
    THEN provider_name(provider)
    ELSE r.default_provider

\* register: a dict assignment keeps the position of a key already present
register(r, provider, is_default) ==
    LET at == IndexOf(r, provider_name(provider))
    IN [providers |->
            IF at = {}
            THEN Append(r.providers, provider)
            ELSE [i \in 1..Len(r.providers) |->
                    IF i \in at THEN provider ELSE r.providers[i]],
        default_provider |-> SetDefault(r, provider, is_default)]

Min(S) == CHOOSE m \in S : \A n \in S : m <= n

get_provider_DefaultFirst(r, id) ==
    LET hits == {i \in 1..Len(r.providers) : supports_model(r.providers[i], id)}
        dflt == IndexOf(r, r.default_provider)
    IN IF r.default_provider # None /\ dflt # {}
       THEN r.providers[Min(dflt)]
       ELSE IF hits # {} THEN r.providers[Min(hits)] ELSE NoProvider

get_provider(r, id) ==
    LET hits == {i \in 1..Len(r.providers) : supports_model(r.providers[i], id)}
        dflt == IndexOf(r, r.default_provider)
    IN IF hits # {}
       THEN r.providers[Min(hits)]
       ELSE IF r.default_provider # None /\ r.default_provider # "" /\ dflt # {}
            THEN r.providers[Min(dflt)]
            ELSE NoProvider

\* What a caller holds who has not read the providers property
NoView == [alias |-> FALSE, items |-> <<>>]

providers_NoCopy(r) == [alias |-> TRUE, items |-> r.providers]

\* The providers property: `self._providers.copy()`, a dict of the caller's
\* own and not another name of the registry's
providers(r) == [alias |-> FALSE, items |-> r.providers]

(***************************************************************************)
(* Registration driver: any sequence of register calls on one registry     *)
(* instance (heap[1]), interleaved with get_provider calls.                *)
(***************************************************************************)
InitIdle ==
    /\ gpc = [c \in 1..NumCallers |-> "idle"]
    /\ gseen = [c \in 1..NumCallers |-> 0]
    /\ gret = [c \in 1..NumCallers |-> 0]
    /\ pc = "idle"
    /\ op = None
    /\ models = <<>>
    /\ tasks = <<>>
    /\ responses = <<>>
    /\ result = <<>>
    /\ messages = History
    /\ view = NoView

\* What the driver remembers of the register calls made so far: how many, the
\* name given by the first one, by the first and by the last one made with
\* is_default=True (None when there was none), and the last call's flag
NoCalls == [n |-> 0, first |-> None, firstDefault |-> None, lastDefault |-> None,
            lastFlag |-> FALSE]

Remember(h, name, is_default) ==
    [n |-> h.n + 1,
     first |-> IF h.n = 0 THEN name ELSE h.first,
     firstDefault |-> IF is_default /\ h.firstDefault = None THEN name ELSE h.firstDefault,
     lastDefault |-> IF is_default THEN name ELSE h.lastDefault,
     lastFlag |-> is_default]

InitRegistry ==
    /\ env = [c \in ProviderClassSet |-> None]
    /\ heap = <<NewRegistry>>
    /\ registry = 0
    /\ regCalls = NoCalls
    /\ resolvedId = <<>>
    /\ resolved = NoProvider
    /\ InitIdle

\* registry.register(cls(key), is_default); a get_provider result obtained
\* before the call is forgotten
DriverRegister(cls, key, is_default) ==
    /\ regCalls.n < MaxRegister
    /\ heap' = [heap EXCEPT ![1] = register(heap[1], Provider(cls, key), is_default)]
    /\ regCalls' = Remember(regCalls, provider_name(Provider(cls, key)), is_default)
    /\ resolvedId' = <<>>
    /\ resolved' = NoProvider
    /\ UNCHANGED <<env, callerVars, registry, getVars, dispVars>>

\* registry.get_provider(id)
DriverGetProvider(id) ==
    /\ resolvedId' = id
    /\ resolved' = get_provider(heap[1], id)
    /\ UNCHANGED <<env, callerVars, heap, registry, regCalls, getVars, dispVars>>

NextRegistry ==
    \/ \E cls \in ProviderClassSet, key \in DriverKeys, d \in BOOLEAN :
            DriverRegister(cls, key, d)
    \/ \E id \in DriverIdentifiers : DriverGetProvider(id)

SpecRegistry == InitRegistry /\ [][NextRegistry]_vars

(***************************************************************************)
(* get_registry and _initialize_providers.  get_registry takes no lock: a   *)
(* caller is between two of its lines when another caller runs.             *)
(***************************************************************************)
\* Truth value of a key read by os.getenv: None and "" are false
Truthy(v) == v # None /\ v # ""

RegistersAlways(key) == TRUE

\* `if OPENROUTER_API_KEY:` and the three tests like it
Registers(key) == Truthy(key)

\* One `if KEY: registry.register(Cls(KEY), ...)` of _initialize_providers
RegisterIfKey(r, e, cls, is_default) ==
    IF Registers(e[cls]) THEN register(r, Provider(cls, e[cls]), is_default) ELSE r

\* _initialize_providers(registry) with the keys of config.py
initialize_providers(r, e) ==
    LET r1 == RegisterIfKey(r, e, "OpenRouterProvider", TRUE)
        r2 == RegisterIfKey(r1, e, "DeepSeekProvider", FALSE)
        r3 == RegisterIfKey(r2, e, "ZhipuProvider", FALSE)
    IN RegisterIfKey(r3, e, "MoonshotProvider", FALSE)

Callers == 1..NumCallers

InitSingleton ==
    /\ env \in [ProviderClassSet -> EnvValues]
    /\ heap = <<>>
    /\ registry = 0
    /\ regCalls = NoCalls
    /\ resolvedId = <<>>
    /\ resolved = NoProvider
    /\ gpc = [c \in Callers |-> "check"]
    /\ gseen = [c \in Callers |-> 0]
    /\ gret = [c \in Callers |-> 0]
    /\ pc = "idle"
    /\ op = None
    /\ models = <<>>
    /\ tasks = <<>>
    /\ responses = <<>>
    /\ result = <<>>
    /\ messages = History
    /\ view = NoView

\* line 161: if _registry is None
CheckNone(c) ==
    /\ gpc[c] = "check"
    /\ gpc' = [gpc EXCEPT ![c] = IF registry = 0 THEN "construct" ELSE "return"]
    /\ UNCHANGED <<env, callerVars, heap, registry, regVars, gseen, gret, dispVars>>

\* line 162: _registry = ProviderRegistry()
Construct(c) ==
    /\ gpc[c] = "construct"
    /\ heap' = Append(heap, NewRegistry)
    /\ registry' = Len(heap) + 1
    /\ gpc' = [gpc EXCEPT ![c] = "initialize"]
    /\ UNCHANGED <<env, callerVars, regVars, gseen, gret, dispVars>>

\* line 163: _initialize_providers(_registry), on the registry the global
\* names when the call is made
InitializeProviders(c) ==
    /\ gpc[c] = "initialize"
    /\ gseen' = [gseen EXCEPT ![c] = registry]
    /\ heap' = [heap EXCEPT ![registry] = initialize_providers(heap[registry], env)]
    /\ gpc' = [gpc EXCEPT ![c] = "return"]
    /\ UNCHANGED <<env, callerVars, registry, regVars, gret, dispVars>>

\* line 163 when an import of _initialize_providers (lines 169-178) raises:
\* the exception leaves get_registry, nothing is registered, and _registry
\* keeps the registry assigned on line 162
InitializeProvidersFails(c) ==
    /\ gpc[c] = "initialize"
    /\ gseen' = [gseen EXCEPT ![c] = registry]
    /\ gpc' = [gpc EXCEPT ![c] = "raised"]
    /\ UNCHANGED <<env, callerVars, heap, registry, regVars, gret, dispVars>>

\* line 164: return _registry
Return(c) ==
    /\ gpc[c] = "return"
    /\ gret' = [gret EXCEPT ![c] = registry]
    /\ gpc' = [gpc EXCEPT ![c] = "done"]
    /\ UNCHANGED <<env, callerVars, heap, registry, regVars, gseen, dispVars>>

\* get_registry().get_provider(id) by a caller whose get_registry returned
Resolve(c, id) ==
    /\ gpc[c] = "done"
    /\ resolvedId' = id
    /\ resolved' = get_provider(heap[gret[c]], id)
    /\ UNCHANGED <<env, callerVars, heap, registry, regCalls, getVars, dispVars>>

NextSingleton ==
    \/ \E c \in Callers : CheckNone(c)
    \/ \E c \in Callers : Construct(c)
    \/ \E c \in Callers : InitializeProviders(c)
    \/ \E c \in Callers : InitializeProvidersFails(c)
    \/ \E c \in Callers : Return(c)
    \/ \E c \in Callers, id \in Identifiers : Resolve(c, id)

SpecSingleton == InitSingleton /\ [][NextSingleton]_vars

(***************************************************************************)
(* Adapter query: one POST and the reading of the reply                    *)
(***************************************************************************)
\* A backend's answer to one POST, as far as the adapters look at it:
\*   transport  "ok", or the httpx exception raised by client.post
\*   status     the HTTP status
\*   body       "json" or "text" (response.json() raises on the latter)
\*   choices    "missing" (no 'choices' key), "empty" ([]), "list"
\*   message    "missing" (no 'message' key), "null", "dict"
\*   content, reasoning_content, reasoning_details
\*              the values of these keys of the message, None when the key
\*              is not there
Reply(transport, status, body, choices, message, content, rc, rd) ==
    [transport |-> transport, status |-> status, body |-> body, choices |-> choices,
     message |-> message, content |-> content, reasoning_content |-> rc,
     reasoning_details |-> rd]

ReplyOk == Reply("ok", 200, "json", "list", "dict", "hello", "because", "steps")
ReplyNoContent == Reply("ok", 200, "json", "list", "dict", None, None, None)
ReplyConnectError == Reply("ConnectError", 0, "text", "missing", "missing", None, None, None)
ReplyTimeout == Reply("TimeoutException", 0, "text", "missing", "missing", None, None, None)
ReplyStatus500 == Reply("ok", 500, "json", "missing", "missing", None, None, None)
ReplyNoChoices == Reply("ok", 200, "json", "missing", "missing", None, None, None)
ReplyNotJson == Reply("ok", 200, "text", "missing", "missing", None, None, None)
ReplyEmptyChoices == Reply("ok", 200, "json", "empty", "missing", None, None, None)
ReplyNoMessage == Reply("ok", 200, "json", "list", "missing", None, None, None)
ReplyNullMessage == Reply("ok", 200, "json", "list", "null", None, None, None)
ReplyStatus429Body == Reply("ok", 429, "json", "list", "dict", "slow down", None, None)

\* Replies explored when an adapter's query is called on its own
AllReplies == {ReplyOk, ReplyNoContent, ReplyConnectError, ReplyTimeout, ReplyStatus500,
               ReplyNoChoices, ReplyNotJson, ReplyEmptyChoices, ReplyNoMessage,
               ReplyNullMessage, ReplyStatus429Body}

\* Replies explored by the dispatcher
Replies == {ReplyOk, ReplyNoContent, ReplyConnectError, ReplyTimeout,
            ReplyStatus500, ReplyNoChoices}

\* What a coroutine ends with: a returned value (None or a response dict) or
\* an exception
ReturnNone == [raised |-> None, isNone |-> TRUE, content |-> None,
               reasoning_details |-> None]
ReturnDict(content, rd) == [raised |-> None, isNone |-> FALSE, content |-> content,
                            reasoning_details |-> rd]
Raise(exc) == [raised |-> exc, isNone |-> TRUE, content |-> None,
               reasoning_details |-> None]

ExceptionIn_NoStatusCheck(reply) ==
    IF reply.transport # "ok" THEN reply.transport
    ELSE IF reply.body # "json" THEN "JSONDecodeError"
    ELSE IF reply.choices = "missing" THEN "KeyError"
    ELSE IF reply.choices = "empty" THEN "IndexError"
    ELSE IF reply.message = "missing" THEN "KeyError"
    ELSE IF reply.message = "null" THEN "AttributeError"
    ELSE None

\* The exception raised inside the try block, None when it runs to the return
ExceptionIn(reply) ==
    IF reply.transport # "ok" THEN reply.transport
    ELSE IF reply.status < 200 \/ reply.status >= 300 THEN "HTTPStatusError"
    ELSE IF reply.body # "json" THEN "JSONDecodeError"
    ELSE IF reply.choices = "missing" THEN "KeyError"
    ELSE IF reply.choices = "empty" THEN "IndexError"
    ELSE IF reply.message = "missing" THEN "KeyError"
    ELSE IF reply.message = "null" THEN "AttributeError"
    ELSE None

\* httpx.HTTPError is the base of the transport and status errors only
CatchesHttpErrorOnly(exc) ==
    exc \in {"ConnectError", "TimeoutException", "HTTPStatusError"}

\* `except Exception`
Catches(exc) == TRUE

\* The 'reasoning_details' entry of the returned dict
ReasoningOf(p, reply) ==
    CASE p.cls = "OpenRouterProvider" -> reply.reasoning_details
      [] p.cls = "DeepSeekProvider" -> reply.reasoning_content
      [] OTHER -> None

payload_messages_UserOnly(msgs) ==
    LET keep == {i \in 1..Len(msgs) : msgs[i].role = "user"}
    IN IF keep = {} THEN <<>> ELSE <<msgs[CHOOSE i \in keep : TRUE]>>

\* The "messages" entry of the payload: the caller's list itself
payload_messages(msgs) == msgs

\* The "model" entry of the payload
PayloadModel(p, id) ==
    IF p.cls = "OpenRouterProvider" THEN id ELSE extract_model_name(id)

query_NoTry(p, reply) ==
    LET exc == ExceptionIn(reply)
    IN IF exc = None THEN ReturnDict(reply.content, ReasoningOf(p, reply))
       ELSE Raise(exc)

\* query of the four adapters, once the backend has answered
query(p, reply) ==
    LET exc == ExceptionIn(reply)
    IN IF exc = None THEN ReturnDict(reply.content, ReasoningOf(p, reply))
       ELSE IF Catches(exc) THEN ReturnNone
       ELSE Raise(exc)

(***************************************************************************)
(* Dispatcher: query_model and query_models_parallel of backend/openrouter  *)
(* and of ProviderRegistry, run by one asyncio event loop.                  *)
(***************************************************************************)
\* Key settings explored by the dispatcher: the classes whose key is set
KeysSetFor(S) == [cls \in ProviderClassSet |-> IF cls \in S THEN "sk" ELSE None]

DispatchEnvs ==
    {KeysSetFor(S) : S \in {{}, ProviderClassSet,
                            {"OpenRouterProvider"}, {"DeepSeekProvider"},
                            {"OpenRouterProvider", "DeepSeekProvider"},
                            {"ZhipuProvider", "MoonshotProvider"}, {"MoonshotProvider"},
                            ProviderClassSet \ {"OpenRouterProvider"}}}

\* Sequences of at most n identifiers
RECURSIVE SeqsUpTo(_)
SeqsUpTo(n) ==
    IF n = 0 THEN {<<>>}
    ELSE LET shorter == SeqsUpTo(n - 1)
         IN shorter \cup {Append(q, id) : q \in {t \in shorter : Len(t) = n - 1},
                                           id \in Identifiers}

NoReply == Reply("none", 0, "text", "missing", "missing", None, None, None)

\* A query_model coroutine: where it is, the adapter it resolved, the "model"
\* it put in the payload, whether the adapter's query was called, the reply
\* of the backend, what the coroutine ended with, and its place in the order
\* in which the coroutines of the call ended (0 while it runs)
NewTask(st) == [st |-> st, provider |-> NoProvider, sent |-> <<>>,
                contacted |-> FALSE, reply |-> NoReply, out |-> ReturnNone,
                rank |-> 0, body |-> <<>>]

\* The place the next coroutine to end takes
NextRank(ts) == Cardinality({j \in 1..Len(ts) : ts[j].st = "done"}) + 1

Init ==
    /\ env \in DispatchEnvs
    /\ heap = <<>>
    /\ registry = 0
    /\ regCalls = NoCalls
    /\ resolvedId = <<>>
    /\ resolved = NoProvider
    /\ InitIdle

\* get_registry() run without interruption, as on the event loop
GetRegistryHeap == IF registry = 0 THEN Append(heap, initialize_providers(NewRegistry, env))
                   ELSE heap
GetRegistryRef == IF registry = 0 THEN Len(heap) + 1 ELSE registry

\* backend/openrouter.query_model: `return await registry.query_model(...)`
CallQueryModel(m) ==
    /\ pc = "idle"
    /\ heap' = GetRegistryHeap
    /\ registry' = GetRegistryRef
    /\ op' = "query_model"
    /\ models' = <<m>>
    /\ tasks' = <<NewTask("scheduled")>>
    /\ pc' = "awaiting"
    /\ UNCHANGED <<env, callerVars, regVars, getVars, responses, result>>

\* backend/openrouter.query_models_parallel up to line 143 of base.py: one
\* coroutine object per element of models, none of them running yet
CallQueryModelsParallel(ms) ==
    /\ pc = "idle"
    /\ heap' = GetRegistryHeap
    /\ registry' = GetRegistryRef
    /\ op' = "query_models_parallel"
    /\ models' = ms
    /\ tasks' = [i \in 1..Len(ms) |-> NewTask("created")]
    /\ pc' = "created"
    /\ UNCHANGED <<env, callerVars, regVars, getVars, responses, result>>

gather_schedule_FirstOnly(ts) ==
    [i \in 1..Len(ts) |-> IF i = 1 THEN [ts[i] EXCEPT !.st = "scheduled"] ELSE ts[i]]

\* asyncio.gather(*tasks): every coroutine is wrapped in a task and scheduled
gather_schedule(ts) == [i \in 1..Len(ts) |-> [ts[i] EXCEPT !.st = "scheduled"]]

\* line 144 up to the suspension of the caller
Gather ==
    /\ pc = "created"
    /\ tasks' = gather_schedule(tasks)
    /\ pc' = "awaiting"
    /\ UNCHANGED <<env, callerVars, heap, registry, regVars, getVars, op, models, responses, result>>

query_model_begin_NoCheck(provider) == "query"

\* ProviderRegistry.query_model, lines 119-124
query_model_begin(provider) == IF provider = NoProvider THEN "return None" ELSE "query"

\* A scheduled coroutine runs from its start to its first suspension, the
\* POST, or to its end; the loop runs scheduled coroutines first come first
\* served
RunTask(i) ==
    /\ pc = "awaiting"
    /\ i \in 1..Len(tasks)
    /\ tasks[i].st = "scheduled"
    /\ \A j \in 1..(i - 1) : tasks[j].st # "scheduled"
    /\ LET provider == get_provider(heap[registry], models[i])
       IN IF query_model_begin(provider) = "return None"
          THEN tasks' = [tasks EXCEPT ![i] =
                            [@ EXCEPT !.st = "done", !.out = ReturnNone,
                                      !.rank = NextRank(tasks)]]
          ELSE IF provider = NoProvider
          THEN tasks' = [tasks EXCEPT ![i] =
                            [@ EXCEPT !.st = "done", !.out = Raise("AttributeError"),
                                      !.rank = NextRank(tasks)]]
          ELSE tasks' = [tasks EXCEPT ![i] =
                            [@ EXCEPT !.st = "inflight", !.provider = provider,
                                      !.sent = PayloadModel(provider, models[i]),
                                      !.body = payload_messages(messages),
                                      !.contacted = TRUE]]
    /\ UNCHANGED <<env, callerVars, heap, registry, regVars, getVars, pc, op, models, responses, result>>

\* The backend answers (or the transport gives up) and the adapter's query
\* runs to its end
BackendReplies(i, reply) ==
    /\ pc = "awaiting"
    /\ i \in 1..Len(tasks)
    /\ tasks[i].st = "inflight"
    /\ tasks' = [tasks EXCEPT ![i] =
                    [@ EXCEPT !.st = "done", !.reply = reply,
                              !.out = query(tasks[i].provider, reply),
                              !.rank = NextRank(tasks)]]
    /\ UNCHANGED <<env, callerVars, heap, registry, regVars, getVars, pc, op, models, responses, result>>

Max(S) == CHOOSE m \in S : \A n \in S : m >= n

dict_DropNone(ms, rs) ==
    LET keys == {ms[i] : i \in {j \in 1..Len(ms) : ~rs[j].isNone}}
    IN [m \in keys |-> rs[Max({i \in 1..Len(ms) : ms[i] = m /\ ~rs[i].isNone})]]

dict_FirstWins(ms, rs) ==
    [m \in {ms[i] : i \in 1..Len(ms)} |-> rs[Min({i \in 1..Len(ms) : ms[i] = m})]]

\* line 146: {model: response for model, response in zip(models, responses)};
\* a later pair replaces an earlier one with the same key
dict(ms, rs) ==
    [m \in {ms[i] : i \in 1..Len(ms)} |-> rs[Max({i \in 1..Len(ms) : ms[i] = m})]]

gather_results_CompletionOrder(ts) ==
    [k \in 1..Len(ts) |-> ts[CHOOSE i \in 1..Len(ts) : ts[i].rank = k].out]

\* The list asyncio.gather returns: the results in the order of its arguments
gather_results(ts) == [i \in 1..Len(ts) |-> ts[i].out]

gather_done_AllSucceeded(ts) ==
    \A i \in 1..Len(ts) : ts[i].st = "done" /\ ~ts[i].out.isNone

\* gather's future is done when every task is, or as soon as one raised
gather_done(ts) ==
    \/ \A i \in 1..Len(ts) : ts[i].st = "done"
    \/ \E i \in 1..Len(ts) : ts[i].st = "done" /\ ts[i].out.raised # None

\* The caller resumes from its await and returns (lines 144-146; line 124 and
\* backend/openrouter.py for query_model), or the exception of a coroutine
\* leaves the call
Join ==
    /\ pc = "awaiting"
    /\ gather_done(tasks)
    /\ IF \E i \in 1..Len(tasks) : tasks[i].st = "done" /\ tasks[i].out.raised # None
       THEN /\ pc' = "raised"
            /\ UNCHANGED <<responses, result>>
       ELSE /\ pc' = "returned"
            /\ responses' = gather_results(tasks)
            /\ result' = IF op \in {"query_model", "query"} THEN tasks[1].out
                         ELSE dict(models, gather_results(tasks))
    /\ UNCHANGED <<env, callerVars, heap, registry, regVars, getVars, op, models, tasks>>

Next ==
    \/ \E m \in Identifiers : CallQueryModel(m)
    \/ \E ms \in SeqsUpTo(MaxModels) : CallQueryModelsParallel(ms)
    \/ Gather
    \/ \E i \in 1..MaxModels : RunTask(i)
    \/ \E i \in 1..MaxModels, reply \in Replies : BackendReplies(i, reply)
    \/ Join

Spec == Init /\ [][Next]_vars

(***************************************************************************)
(* An adapter's query called on its own, with any identifier               *)
(***************************************************************************)
InitAdapter ==
    /\ env = KeysSetFor({})
    /\ heap = <<>>
    /\ registry = 0
    /\ regCalls = NoCalls
    /\ resolvedId = <<>>
    /\ resolved = NoProvider
    /\ InitIdle

\* await Cls(key).query(id, messages), up to the POST
AdapterQueryCall(cls, key, id) ==
    /\ pc = "idle"
    /\ op' = "query"
    /\ models' = <<id>>
    /\ tasks' = <<[NewTask("inflight") EXCEPT
                        !.provider = Provider(cls, key),
                        !.sent = PayloadModel(Provider(cls, key), id),
                        !.body = payload_messages(messages),
                        !.contacted = TRUE]>>
    /\ pc' = "awaiting"
    /\ UNCHANGED <<env, callerVars, heap, registry, regVars, getVars, responses, result>>

NextAdapter ==
    \/ \E cls \in ProviderClassSet, id \in DriverIdentifiers : AdapterQueryCall(cls, "sk", id)
    \/ \E reply \in AllReplies : BackendReplies(1, reply)
    \/ Join

SpecAdapter == InitAdapter /\ [][NextAdapter]_vars

(***************************************************************************)
(* Calls one after another on one registry, with message lists of the      *)
(* caller and a caller that reads the providers property and changes what   *)
(* it got                                                                   *)
(***************************************************************************)
MessageLists ==
    {History,
     <<Message("assistant", "because"), Message("user", "why?"),
       Message("system", "be brief")>>,
     <<Message("user", "why?"), Message("user", "why?")>>}

SharedIdentifiers == {<<"openai", "x">>, <<"deepseek", "x">>}

InitShared ==
    /\ env = KeysSetFor(ProviderClassSet)
    /\ heap = <<>>
    /\ registry = 0
    /\ regCalls = NoCalls
    /\ resolvedId = <<>>
    /\ resolved = NoProvider
    /\ gpc = <<>>
    /\ gseen = <<>>
    /\ gret = <<>>
    /\ pc = "idle"
    /\ op = None
    /\ models = <<>>
    /\ tasks = <<>>
    /\ responses = <<>>
    /\ result = <<>>
    /\ messages \in MessageLists
    /\ view = NoView

\* The call is over and the caller is free to make the next one
Finish ==
    /\ pc \in {"returned", "raised"}
    /\ pc' = "idle"
    /\ op' = None
    /\ models' = <<>>
    /\ tasks' = <<>>
    /\ responses' = <<>>
    /\ result' = <<>>
    /\ UNCHANGED <<env, callerVars, heap, registry, regVars, getVars>>

\* get_registry().providers
ReadProviders ==
    /\ registry # 0
    /\ view' = providers(heap[registry])
    /\ UNCHANGED <<env, messages, heap, registry, regVars, getVars, dispVars>>

\* The caller deletes the first entry of the dict it got; from a dict that is
\* another name of the registry's _providers the registry would lose it too
PopView ==
    /\ view.items # <<>>
    /\ view' = [view EXCEPT !.items = Tail(@)]
    /\ heap' = IF view.alias THEN [heap EXCEPT ![registry].providers = Tail(@)] ELSE heap
    /\ UNCHANGED <<env, messages, registry, regVars, getVars, dispVars>>

NextShared ==
    \/ \E m \in SharedIdentifiers : CallQueryModel(m)
    \/ \E ms \in {q \in SeqsUpTo(MaxModels) : \A i \in 1..Len(q) : q[i] \in SharedIdentifiers} :
            CallQueryModelsParallel(ms)
    \/ Gather
    \/ \E i \in 1..MaxModels : RunTask(i)
    \/ \E i \in 1..MaxModels, reply \in Replies : BackendReplies(i, reply)
    \/ Join
    \/ Finish
    \/ ReadProviders
    \/ PopView

SpecShared == InitShared /\ [][NextShared]_vars

(***************************************************************************)
(* One call under a fair event loop: a coroutine that can run does run, and *)
(* every POST ends, with a reply, an error or the timeout given to           *)
(* httpx.AsyncClient                                                        *)
(***************************************************************************)
InitLive == InitShared /\ messages = History

NextLive ==
    \/ \E m \in SharedIdentifiers : CallQueryModel(m)
    \/ \E ms \in {q \in SeqsUpTo(MaxModels) : \A i \in 1..Len(q) : q[i] \in SharedIdentifiers} :
            CallQueryModelsParallel(ms)
    \/ Gather
    \/ \E i \in 1..MaxModels : RunTask(i)
    \/ \E i \in 1..MaxModels, reply \in Replies : BackendReplies(i, reply)
    \/ Join

Fairness ==
    /\ WF_vars(Gather)
    /\ \A i \in 1..MaxModels : WF_vars(RunTask(i))
    /\ \A i \in 1..MaxModels : WF_vars(\E reply \in Replies : BackendReplies(i, reply))
    /\ WF_vars(Join)

SpecLive == InitLive /\ [][NextLive]_vars /\ Fairness

(***************************************************************************)
(* Claims about registration and resolution (SpecRegistry)                 *)
(***************************************************************************)
\* Positions, in registration order, of the adapters that accept id
Matching(r, id) == {i \in 1..Len(r.providers) : supports_model(r.providers[i], id)}

\* Positions of the adapter the registry's fallback name refers to
FallbackAt(r) ==
    {i \in 1..Len(r.providers) : provider_name(r.providers[i]) = r.default_provider}

\* C3: get_provider returns the first adapter in registration order whose
\* supports_model accepts the identifier; when none accepts it, the fallback
\* adapter if there is one; otherwise no adapter.  A match is preferred over
\* the fallback.
C3_ResolutionOrder ==
    resolvedId # <<>> =>
        LET r == heap[1]
            m == Matching(r, resolvedId)
        IN /\ m # {} =>
                \E i \in m : /\ resolved = r.providers[i]
                              /\ \A j \in 1..(i - 1) : j \notin m
           /\ (m = {} /\ FallbackAt(r) # {}) =>
                \E i \in FallbackAt(r) : resolved = r.providers[i]
           /\ (m = {} /\ FallbackAt(r) = {}) => resolved = NoProvider

\* C3 witness: an identifier accepted by a registered adapter that is not the
\* fallback was resolved to that adapter
C3_Witness ==
    /\ resolvedId # <<>>
    /\ Matching(heap[1], resolvedId) # {}
    /\ FallbackAt(heap[1]) # {}
    /\ provider_name(resolved) # heap[1].default_provider
    /\ supports_model(resolved, resolvedId)
    /\ Len(heap[1].providers) >= 2

\* C4 as stated: the fallback is the first adapter registered with
\* is_default=True, or the first adapter registered when none was marked
\* default, and later register calls do not change it.
C4_FirstDefaultIsFallback ==
    regCalls.n > 0 =>
        heap[1].default_provider =
            IF regCalls.firstDefault # None THEN regCalls.firstDefault ELSE regCalls.first

\* C4 amended: the fallback is the name given by the most recent register call
\* made with is_default=True, or by the first register call when no call was
\* marked default.
C4_LastDefaultIsFallback ==
    /\ regCalls.n = 0 => heap[1].default_provider = None
    /\ regCalls.n > 0 =>
        heap[1].default_provider =
            IF regCalls.lastDefault # None THEN regCalls.lastDefault ELSE regCalls.first

\* C4 witness: a second register call with is_default=True replaced the
\* fallback chosen by an earlier one
C4_Witness ==
    /\ regCalls.n >= 2
    /\ regCalls.firstDefault # None
    /\ regCalls.lastDefault # regCalls.firstDefault
    /\ heap[1].default_provider = regCalls.lastDefault

\* The adapter class a namespace is meant for, None for any other namespace
NamespaceOwner(ns) ==
    CASE ns = "deepseek" -> "DeepSeekProvider"
      [] ns \in {"zhipu", "glm"} -> "ZhipuProvider"
      [] ns \in {"moonshot", "kimi"} -> "MoonshotProvider"
      [] ns \in {"openai", "anthropic", "google", "meta-llama", "x-ai", "mistralai",
                 "microsoft", "cohere", "perplexity", "qwen"} -> "OpenRouterProvider"
      [] OTHER -> None

\* The adapter classes whose supports_model accepts id
Claimers(id) == {cls \in ProviderClassSet : supports_model(Provider(cls, "sk"), id)}

\* C11: of the four adapters no two accept the same identifier, and an
\* identifier with a '/' whose namespace is one of the adapters' own is
\* accepted by exactly one, the adapter the namespace is meant for.
C11_NamespacesPartition ==
    (resolvedId # <<>> /\ HasSlash(resolvedId)) =>
        /\ Cardinality(Claimers(resolvedId)) <= 1
        /\ NamespaceOwner(resolvedId[1]) # None =>
                Claimers(resolvedId) = {NamespaceOwner(resolvedId[1])}

\* C11 witness: with the DeepSeek, GLM and Kimi adapters registered,
\* "deepseek/x" was resolved to the DeepSeek adapter
C11_Witness ==
    /\ resolvedId = <<"deepseek", "x">>
    /\ resolved.cls = "DeepSeekProvider"
    /\ {heap[1].providers[i].cls : i \in 1..Len(heap[1].providers)} =
            {"DeepSeekProvider", "ZhipuProvider", "MoonshotProvider"}

\* C12: no adapter other than the default one accepts an identifier without
\* '/', and get_provider returns the fallback adapter for it whenever the
\* registry has one.
C12_BareIdentifierFallsBack ==
    (resolvedId # <<>> /\ ~HasSlash(resolvedId)) =>
        /\ Claimers(resolvedId) \subseteq {"OpenRouterProvider"}
        /\ FallbackAt(heap[1]) # {} =>
                /\ resolved # NoProvider
                /\ \E i \in FallbackAt(heap[1]) : resolved = heap[1].providers[i]

\* C12 witness: the bare identifier "deepseek" was resolved to the fallback
\* while the DeepSeek adapter was registered and was not the fallback
C12_Witness ==
    /\ resolvedId = <<"deepseek">>
    /\ \E i \in 1..Len(heap[1].providers) :
            heap[1].providers[i].cls = "DeepSeekProvider"
    /\ heap[1].default_provider # "deepseek"
    /\ provider_name(resolved) = heap[1].default_provider

(***************************************************************************)
(* Claims about the process-wide registry (SpecSingleton)                  *)
(***************************************************************************)
\* C8: whatever the interleaving of first-access calls of get_registry, the
\* registry is constructed (and its providers initialised) at most once, and
\* all calls return the same instance.
C8_BuiltOnce ==
    /\ Len(heap) <= 1
    /\ \A c, d \in Callers :
            (gpc[c] = "done" /\ gpc[d] = "done") => gret[c] = gret[d]

\* The registry holds an adapter of every class whose credential is present
FullyInitialised(r) ==
    \A cls \in ProviderClassSet :
        Truthy(env[cls]) => \E i \in 1..Len(r.providers) : r.providers[i].cls = cls

\* C19: whenever get_registry returns, the registry it returns holds every
\* adapter whose credential is present, also while another first-access call
\* is in progress and after a provider initialisation that raised.
C19_ReturnedFullyInitialised ==
    \A c \in Callers : gpc[c] = "done" => FullyInitialised(heap[gret[c]])

\* Provider classes whose credential is absent: unset, or set to nothing
AbsentCredential == {cls \in ProviderClassSet : env[cls] \in {None, ""}}

\* C9: an adapter whose credential is absent is in no registry built by
\* get_registry: it is not among the providers, it is not the fallback, and
\* no identifier resolves to it.
C9_AbsentCredentialExcluded ==
    /\ \A k \in 1..Len(heap) :
        /\ \A i \in 1..Len(heap[k].providers) :
                heap[k].providers[i].cls \notin AbsentCredential
        /\ \A cls \in AbsentCredential :
                heap[k].default_provider # provider_name(Provider(cls, env[cls]))
    /\ resolved.cls \notin AbsentCredential

\* C9 witness: with the default backend's credential absent and another
\* present, an identifier of the absent backend's namespace was resolved
C9_Witness ==
    /\ "OpenRouterProvider" \in AbsentCredential
    /\ AbsentCredential # ProviderClassSet
    /\ resolvedId = <<"openai", "x">>
    /\ resolved # NoProvider

(***************************************************************************)
(* Claims about the dispatcher (Spec)                                      *)
(***************************************************************************)
Positions == 1..Len(models)

\* Positions of the input at which identifier m stands
Occurrences(m) == {i \in Positions : models[i] = m}

\* The backend call succeeded: a 2xx JSON reply whose first choice has a
\* message with content
BackendSucceeded(t) ==
    /\ t.contacted
    /\ t.reply.transport = "ok"
    /\ t.reply.status = 200
    /\ t.reply.body = "json"
    /\ t.reply.choices = "list"
    /\ t.reply.message = "dict"
    /\ t.reply.content # None

\* The backend call failed: transport error, timeout, non-success status, or a
\* reply without choices[0].message
BackendFailed(t) ==
    /\ t.contacted
    /\ \/ t.reply.transport \in {"ConnectError", "TimeoutException"}
       \/ t.reply.status # 200
       \/ t.reply.body # "json"
       \/ t.reply.choices # "list"
       \/ t.reply.message # "dict"

\* No registered adapter accepts the identifier and there is no fallback
Unresolvable(id) ==
    /\ registry # 0
    /\ Matching(heap[registry], id) = {}
    /\ FallbackAt(heap[registry]) = {}

\* C1: query_models_parallel lets no exception escape, whatever the backends
\* do; in the map it returns, the entry of a model is the outcome of one of
\* that model's own queries: it has content when the model's backend calls
\* succeeded and is None when they failed, whatever happened to the others.
C1_FailureIsolation ==
    op = "query_models_parallel" =>
        /\ pc # "raised"
        /\ pc = "returned" =>
            \A i \in Positions :
                LET m == models[i]
                IN /\ m \in DOMAIN result
                   /\ \E j \in Occurrences(m) : result[m] = tasks[j].out
                   /\ (\A j \in Occurrences(m) : BackendSucceeded(tasks[j])) =>
                        /\ ~result[m].isNone
                        /\ result[m].content = tasks[i].reply.content
                   /\ (\A j \in Occurrences(m) : BackendFailed(tasks[j])) =>
                        result[m] = ReturnNone

\* C1 witness: a batch returned in which one model's backend failed and its
\* entry is None while another model's entry has its backend's content
C1_Witness ==
    /\ op = "query_models_parallel"
    /\ pc = "returned"
    /\ \E i, j \in Positions :
        /\ models[i] # models[j]
        /\ BackendFailed(tasks[i])
        /\ result[models[i]] = ReturnNone
        /\ BackendSucceeded(tasks[j])
        /\ result[models[j]].content = "hello"

\* C2: query_model and the adapters' query never raise: an unresolvable
\* identifier, a transport failure, a non-success status and a reply without
\* choices[0].message all end in None being returned.
C2_NeverRaises ==
    /\ pc # "raised"
    /\ \A i \in 1..Len(tasks) :
        tasks[i].st = "done" =>
            /\ tasks[i].out.raised = None
            /\ (Unresolvable(models[i]) \/ BackendFailed(tasks[i])) =>
                    tasks[i].out = ReturnNone
    /\ (op = "query_model" /\ pc = "returned") =>
            /\ result = tasks[1].out
            /\ (Unresolvable(models[1]) \/ BackendFailed(tasks[1])) => result = ReturnNone

\* C2 witness: query_model returned None after a 2xx reply without 'choices'
C2_Witness ==
    /\ op = "query_model"
    /\ pc = "returned"
    /\ tasks[1].reply = ReplyNoChoices
    /\ result = ReturnNone

\* C5 as stated: the returned map has as many entries as models has elements.
C5_SameCardinality ==
    (op = "query_models_parallel" /\ pc = "returned") =>
        Cardinality(DOMAIN result) = Len(models)

\* C5 amended: the keys of the returned map are exactly the distinct
\* identifiers of models, one entry each; the map has as many entries as
\* models has elements when no identifier is repeated.
C5_OneEntryPerDistinctModel ==
    (op = "query_models_parallel" /\ pc = "returned") =>
        /\ DOMAIN result = {models[i] : i \in Positions}
        /\ (\A i, j \in Positions : models[i] = models[j] => i = j) =>
                Cardinality(DOMAIN result) = Len(models)

\* C5 witness: a batch naming one identifier twice returned a map of one entry
C5_Witness ==
    /\ op = "query_models_parallel"
    /\ pc = "returned"
    /\ Len(models) = 2
    /\ models[1] = models[2]
    /\ Cardinality(DOMAIN result) = 1

\* The occurrence of m whose query ended last
LastCompleted(m) ==
    CHOOSE i \in Occurrences(m) : \A j \in Occurrences(m) : tasks[j].rank <= tasks[i].rank

\* C6 as stated: the entry of an identifier that occurs more than once is the
\* outcome of the occurrence whose query completed last.
C6_LastCompletedWins ==
    (op = "query_models_parallel" /\ pc = "returned") =>
        \A m \in DOMAIN result :
            Cardinality(Occurrences(m)) > 1 => result[m] = tasks[LastCompleted(m)].out

\* C6 amended: every occurrence of a repeated identifier gets a query of its
\* own, and the entry of the identifier is the outcome of its last occurrence
\* in the input, in whatever order the queries complete.
C6_LastPositionWins ==
    /\ Len(tasks) = Len(models)
    /\ (op = "query_models_parallel" /\ pc = "returned") =>
        \A m \in DOMAIN result :
            /\ Occurrences(m) # {}
            /\ \A i \in Occurrences(m) :
                    tasks[i].contacted \/ get_provider(heap[registry], m) = NoProvider
            /\ result[m] = tasks[Max(Occurrences(m))].out

\* C6 witness: of two queries for one identifier the first completed last,
\* with another outcome, and the entry is the outcome of the second
C6_Witness ==
    /\ op = "query_models_parallel"
    /\ pc = "returned"
    /\ Len(models) = 2
    /\ models[1] = models[2]
    /\ tasks[1].rank > tasks[2].rank
    /\ tasks[1].out # tasks[2].out
    /\ result[models[1]] = tasks[2].out

\* C7: query_models_parallel schedules all its queries before it waits for
\* any of them, so that none is still unscheduled once one has started or
\* ended, and it returns only when every one of them has ended.
C7_FanOutJoin ==
    op = "query_models_parallel" =>
        /\ pc \in {"awaiting", "returned"} =>
                \A i \in 1..Len(tasks) : tasks[i].st # "created"
        /\ (\E i \in 1..Len(tasks) : tasks[i].st \in {"inflight", "done"}) =>
                \A j \in 1..Len(tasks) : tasks[j].st # "created"
        /\ pc = "returned" => \A i \in 1..Len(tasks) : tasks[i].st = "done"

\* C7 witness: two queries were in flight together and the call has returned
\* since, the second having ended first
C7_Witness ==
    /\ op = "query_models_parallel"
    /\ pc = "returned"
    /\ Len(tasks) = 2
    /\ tasks[1].contacted /\ tasks[2].contacted
    /\ tasks[2].rank < tasks[1].rank

\* C10: a query for an identifier that resolves to no adapter returns None,
\* does not raise, and calls no adapter's query; with no adapter registered
\* that is so for every identifier.
C10_UnresolvedContactsNoBackend ==
    /\ \A i \in 1..Len(tasks) :
        (Unresolvable(models[i]) \/ Len(heap[registry].providers) = 0) =>
            /\ ~tasks[i].contacted
            /\ tasks[i].st # "inflight"
            /\ tasks[i].st = "done" => tasks[i].out = ReturnNone
    /\ (op = "query_model" /\ Unresolvable(models[1])) =>
            /\ pc # "raised"
            /\ pc = "returned" => result = ReturnNone

\* C10 witness: with no adapter registered query_model returned None and no
\* adapter was called
C10_Witness ==
    /\ op = "query_model"
    /\ pc = "returned"
    /\ heap[registry].providers = <<>>
    /\ ~tasks[1].contacted
    /\ result = ReturnNone

(***************************************************************************)
(* Claims about an adapter's query (SpecAdapter)                           *)
(***************************************************************************)
\* C13 as stated: query returns None on a transport error, a non-success
\* status, a malformed reply, and also on a 2xx reply whose message has no
\* content.
C13_NoContentIsFailure ==
    \A i \in 1..Len(tasks) :
        (tasks[i].st = "done" /\ tasks[i].contacted) =>
            ((BackendFailed(tasks[i]) \/ tasks[i].reply.content = None) =>
                tasks[i].out = ReturnNone)

\* C13 amended: query returns None on a transport error, a non-success
\* status, a body that is not JSON and a reply without a choices[0].message
\* object; for a 2xx reply whose message has no content it returns a response
\* dict whose content is None.
C13_FailureYieldsNone ==
    \A i \in 1..Len(tasks) :
        (tasks[i].st = "done" /\ tasks[i].contacted) =>
            /\ BackendFailed(tasks[i]) => tasks[i].out = ReturnNone
            /\ (~BackendFailed(tasks[i]) /\ tasks[i].reply.content = None) =>
                    /\ tasks[i].out.raised = None
                    /\ ~tasks[i].out.isNone
                    /\ tasks[i].out.content = None

\* C13 witness: a query answered 200 with a message without content returned
\* a dict
C13_Witness ==
    /\ op = "query"
    /\ pc = "returned"
    /\ tasks[1].reply = ReplyNoContent
    /\ ~result.isNone
    /\ result.content = None

\* The part of an identifier after its first '/', the identifier when it has
\* no '/'
AfterFirstSlash(id) == IF Len(id) >= 2 THEN SubSeq(id, 2, Len(id)) ELSE id

\* C14 as stated: extract_model_name strips the namespace on the DeepSeek, GLM
\* and Kimi adapters, the default adapter overrides it to return the
\* identifier unchanged, and every adapter sends its extract_model_name of the
\* identifier as the model.
C14_SentIsExtractedName ==
    \A i \in 1..Len(tasks) :
        tasks[i].contacted =>
            LET p == tasks[i].provider
                id == models[i]
            IN /\ tasks[i].sent = adapter_extract_model_name(p, id)
               /\ adapter_extract_model_name(p, id) =
                      IF p.cls = "OpenRouterProvider" THEN id ELSE AfterFirstSlash(id)

\* C14 amended: extract_model_name strips the namespace on all four adapters
\* (the default adapter inherits it too); the DeepSeek, GLM and Kimi adapters
\* send its result as the model, the default adapter does not call it and
\* sends the identifier unchanged.
C14_SentModel ==
    \A i \in 1..Len(tasks) :
        tasks[i].contacted =>
            LET p == tasks[i].provider
                id == models[i]
            IN /\ adapter_extract_model_name(p, id) = AfterFirstSlash(id)
               /\ tasks[i].sent = IF p.cls = "OpenRouterProvider" THEN id
                                  ELSE AfterFirstSlash(id)

\* C14 witness: the default adapter sent "openai/x" whole although its
\* extract_model_name gives "x"
C14_Witness ==
    \E i \in 1..Len(tasks) :
        /\ tasks[i].contacted
        /\ tasks[i].provider.cls = "OpenRouterProvider"
        /\ models[i] = <<"openai", "x">>
        /\ tasks[i].sent = <<"openai", "x">>
        /\ adapter_extract_model_name(tasks[i].provider, models[i]) = <<"x">>

(***************************************************************************)
(* Claims about the pairing of outcomes with identifiers (Spec)            *)
(***************************************************************************)
\* C18: in the dict query_models_parallel returns, the entry of an identifier
\* that occurs once in the input is the outcome of the query made for that
\* identifier (by the adapter the identifier resolves to, on the reply that
\* query got), in whatever order the queries ended: outcomes are paired with
\* identifiers by input position.
C18_PairedByPosition ==
    (op = "query_models_parallel" /\ pc = "returned") =>
        /\ Len(responses) = Len(models)
        /\ \A i \in Positions :
                /\ responses[i] = tasks[i].out
                /\ tasks[i].contacted =>
                        /\ tasks[i].provider = get_provider(heap[registry], models[i])
                        /\ tasks[i].out = query(tasks[i].provider, tasks[i].reply)
                /\ Occurrences(models[i]) = {i} => result[models[i]] = tasks[i].out

\* C18 witness: two different identifiers, the second query ended first and
\* with another outcome than the first, and each entry is the outcome of its
\* own query
C18_Witness ==
    /\ op = "query_models_parallel"
    /\ pc = "returned"
    /\ Len(models) = 2
    /\ models[1] # models[2]
    /\ tasks[1].contacted /\ tasks[2].contacted
    /\ tasks[2].rank < tasks[1].rank
    /\ tasks[1].out # tasks[2].out
    /\ result[models[1]] = tasks[1].out
    /\ result[models[2]] = tasks[2].out

(***************************************************************************)
(* Claims about the fallback without the OpenRouter key (Spec)             *)
(***************************************************************************)
\* The adapter classes other than OpenRouterProvider whose key is set
Credentialed == {cls \in ProviderClassSet \ {"OpenRouterProvider"} : Truthy(env[cls])}

\* The first of them in the order DeepSeek, GLM, Kimi
FirstCredentialed ==
    IF "DeepSeekProvider" \in Credentialed THEN "DeepSeekProvider"
    ELSE IF "ZhipuProvider" \in Credentialed THEN "ZhipuProvider"
    ELSE "MoonshotProvider"

\* C20: when the OpenRouter key is absent and another key is present, the
\* fallback is the first credentialed adapter in the order DeepSeek, GLM,
\* Kimi, and a query for an identifier that no registered adapter claims is
\* sent to that adapter's backend, with the part of the identifier after its
\* first '/' as the model; it does not end with None for want of an adapter.
C20_FallbackWithoutOpenRouter ==
    (registry # 0 /\ ~Truthy(env["OpenRouterProvider"]) /\ Credentialed # {}) =>
        /\ heap[registry].default_provider =
                provider_name(Provider(FirstCredentialed, env[FirstCredentialed]))
        /\ \A i \in 1..Len(tasks) :
                (Matching(heap[registry], models[i]) = {}
                    /\ tasks[i].st \in {"inflight", "done"}) =>
                        /\ tasks[i].contacted
                        /\ tasks[i].provider.cls = FirstCredentialed
                        /\ tasks[i].sent = AfterFirstSlash(models[i])

\* C20 witness: with the GLM and Kimi keys only, "openai/x" was sent to the
\* GLM backend as "x" and got an answer
C20_Witness ==
    /\ env = KeysSetFor({"ZhipuProvider", "MoonshotProvider"})
    /\ pc = "returned"
    /\ \E i \in 1..Len(tasks) :
            /\ models[i] = <<"openai", "x">>
            /\ tasks[i].contacted
            /\ tasks[i].provider.cls = "ZhipuProvider"
            /\ tasks[i].sent = <<"x">>
            /\ ~tasks[i].out.isNone

(***************************************************************************)
(* Claims about what the query path leaves alone (SpecShared)              *)
(***************************************************************************)
\* C15: every backend a query is sent to gets the caller's messages, the
\* same ones in the same order with role and content as given, and no step
\* of a query_model or query_models_parallel call changes the caller's list,
\* which the concurrent queries of one call share.
C15_MessagesForwardedVerbatim ==
    /\ [](\A i \in 1..Len(tasks) : tasks[i].contacted => tasks[i].body = messages)
    /\ [][messages' = messages]_vars

\* C15 witness: two queries of one call are in flight together, each with
\* the caller's three messages as its body
C15_Witness ==
    /\ op = "query_models_parallel"
    /\ Len(tasks) = 2
    /\ tasks[1].st = "inflight" /\ tasks[2].st = "inflight"
    /\ tasks[1].provider # tasks[2].provider
    /\ messages = History
    /\ tasks[1].body = History /\ tasks[2].body = History

\* C16: once the registry is built, no step of a query_model or
\* query_models_parallel call (resolution, an adapter's query) and no read of
\* the providers property, nor a change the caller makes to what it read,
\* changes the registry: its adapters, their order, its fallback and the API
\* key each adapter holds stay as _initialize_providers left them.
C16_RegistryReadOnly ==
    /\ [](registry # 0 =>
            /\ registry = 1
            /\ heap = <<initialize_providers(NewRegistry, env)>>)
    /\ [][registry # 0 => (heap' = heap /\ registry' = registry)]_vars

\* C16 witness: a call has returned after a backend was asked, the caller has
\* read the providers and deleted an entry of its copy, and the registry still
\* holds its four adapters with their keys
C16_Witness ==
    /\ pc = "returned"
    /\ \E i \in 1..Len(tasks) : tasks[i].contacted
    /\ view.items = Tail(heap[registry].providers)
    /\ Len(heap[registry].providers) = 4
    /\ \A i \in 1..4 : heap[registry].providers[i].api_key = "sk"
    /\ heap[registry].default_provider = "openrouter"

(***************************************************************************)
(* Claims about termination (SpecLive)                                     *)
(***************************************************************************)
\* C17: provided every backend call ends (with a reply, an error or its
\* timeout), every query_models_parallel call returns its dict; and a query
\* that has ended is left as it ended, while one in flight stays in flight
\* until its own backend call ends: none is cancelled or issued again because
\* another is slow or has failed.
C17_QueryManyTerminates ==
    /\ (op = "query_models_parallel" /\ pc = "created") ~>
            (op = "query_models_parallel" /\ pc = "returned"
                /\ DOMAIN result = {models[i] : i \in 1..Len(models)})
    /\ [][\A i \in 1..Len(tasks) :
            /\ tasks[i].st = "done" => tasks'[i] = tasks[i]
            /\ tasks[i].st = "inflight" =>
                    \/ tasks'[i] = tasks[i]
                    \/ /\ tasks'[i].st = "done"
                       /\ tasks'[i].out = query(tasks[i].provider, tasks'[i].reply)
                       /\ \A j \in 1..Len(tasks) : j # i => tasks'[j] = tasks[j]]_vars

\* C17 witness: the first of two queries hit its timeout, the second was
\* answered after that, and the call returned with both entries
C17_Witness ==
    /\ op = "query_models_parallel"
    /\ pc = "returned"
    /\ Len(tasks) = 2
    /\ models[1] # models[2]
    /\ tasks[1].reply = ReplyTimeout /\ tasks[1].rank = 1
    /\ tasks[2].rank = 2 /\ ~tasks[2].out.isNone
    /\ result[models[1]] = ReturnNone
    /\ result[models[2]] = tasks[2].out

====
